---- MODULE Spec2Model ----
(***************************************************************************)
(* Model of the 1zip command-line tool (compress / decompress / list) and  *)
(* of the stored-method ZIP container it drives.                           *)
(*                                                                         *)
(* Strings are sequences of tokens.  A token is a path separator, a dot    *)
(* segment, an extension (".zip", ".md") or a plain name atom, so that     *)
(* template strings, basename, extname and join act on them the way they   *)
(* act on characters.                                                      *)
(***************************************************************************)
EXTENDS Integers, Sequences, FiniteSets, TLC

\* ------------------------------------------------------------------------
\* Bounds
\* ------------------------------------------------------------------------
MaxRuns == 2        \* command invocations in one behaviour
MaxFaults == 1      \* injected filesystem write failures in one behaviour
MaxApiAdds == 2     \* add calls a direct Writer client issues

\* ------------------------------------------------------------------------
\* Strings and jsr:@std/path (posix)
\* ------------------------------------------------------------------------
ExtTokens == {".zip", ".md"}

RECURSIVE SplitFrom(_, _, _, _)
SplitFrom(s, i, cur, acc) ==
  IF i > Len(s)
  THEN IF cur = <<>> THEN acc ELSE Append(acc, cur)
  ELSE IF s[i] = "/"
       THEN SplitFrom(s, i + 1, <<>>, IF cur = <<>> THEN acc ELSE Append(acc, cur))
       ELSE SplitFrom(s, i + 1, Append(cur, s[i]), acc)

\* the non-empty segments of a path string
Segments(s) == SplitFrom(s, 1, <<>>, <<>>)

IsAbsolute(s) == Len(s) > 0 /\ s[1] = "/"

HasTrailingSlash(s) == Len(s) > 0 /\ s[Len(s)] = "/"

RECURSIVE NormalizeSegs(_, _, _, _)
NormalizeSegs(segs, i, isAbs, acc) ==
  IF i > Len(segs) THEN acc
  ELSE IF segs[i] = <<".">> THEN NormalizeSegs(segs, i + 1, isAbs, acc)
  ELSE IF segs[i] = <<"..">>
       THEN IF Len(acc) > 0 /\ acc[Len(acc)] # <<"..">>
            THEN NormalizeSegs(segs, i + 1, isAbs, SubSeq(acc, 1, Len(acc) - 1))
            ELSE IF isAbs THEN NormalizeSegs(segs, i + 1, isAbs, acc)
                 ELSE NormalizeSegs(segs, i + 1, isAbs, Append(acc, <<"..">>))
       ELSE NormalizeSegs(segs, i + 1, isAbs, Append(acc, segs[i]))

RECURSIVE JoinSegs(_, _)
JoinSegs(segs, i) ==
  IF i > Len(segs) THEN <<>>
  ELSE IF i = Len(segs) THEN segs[i]
  ELSE segs[i] \o <<"/">> \o JoinSegs(segs, i + 1)

\* normalize(path): resolves "." and "..", collapses separators, keeps a
\* trailing separator, and yields "." for an empty relative result
Normalize(s) ==
  LET isAbs == IsAbsolute(s)
      segs == NormalizeSegs(Segments(s), 1, isAbs, <<>>)
      body == JoinSegs(segs, 1)
  IN  IF s = <<>> THEN <<".">>
      ELSE IF body = <<>>
           THEN IF isAbs THEN <<"/">> ELSE <<".">>
           ELSE (IF isAbs THEN <<"/">> ELSE <<>>) \o body
                \o (IF HasTrailingSlash(s) THEN <<"/">> ELSE <<>>)

\* join(a, b): the non-empty parts separated by "/", then normalized
join(a, b) ==
  IF a = <<>> /\ b = <<>> THEN <<".">>
  ELSE IF a = <<>> THEN Normalize(b)
  ELSE IF b = <<>> THEN Normalize(a)
  ELSE Normalize(a \o <<"/">> \o b)

\* basename(path): the last segment, trailing separators ignored
basename(s) ==
  LET segs == Segments(s)
  IN  IF segs = <<>> THEN (IF IsAbsolute(s) THEN <<"/">> ELSE <<>>)
      ELSE segs[Len(segs)]

\* extname(path): the extension of the last segment, "" for a dot file
extname(s) ==
  LET b == basename(s)
  IN  IF Len(b) >= 2 /\ b[Len(b)] \in ExtTokens /\ b # <<"..">>
      THEN <<b[Len(b)]>> ELSE <<>>

\* basename(path, suffix): the suffix is removed unless it is the whole name
basenameExt(s, suffix) ==
  LET b == basename(s)
  IN  IF suffix # <<>> /\ Len(suffix) < Len(b)
         /\ SubSeq(b, Len(b) - Len(suffix) + 1, Len(b)) = suffix
      THEN SubSeq(b, 1, Len(b) - Len(suffix))
      ELSE b

\* ------------------------------------------------------------------------
\* Container format: Binary Cursor, CRC engine, Entry Codec
\* One sequence element stands for one fixed-width little-endian field or
\* for one name or content byte.
\* ------------------------------------------------------------------------
SigLocalHeader == 67324752       \* 50 4B 03 04
SigCentralRecord == 33639248     \* 50 4B 01 02
SigEOCD == 101010256             \* 50 4B 05 06
LocalHeaderFields == 4           \* signature, crc, size, name length
CentralRecordFields == 6         \* signature, crc, size, name length, offset, attributes
EOCDFields == 5                  \* signature, count, directory size, directory offset, comment length
DirectoryAttr == 16              \* external-attributes directory flag
FileAttr == 0

\* the byte value of every token a member name is made of
TokenTable == <<"/", "\\", "..", ".", ".zip", ".md", "tmp", "sub", "empty",
                "a", "b", "README", "x", "lnk">>

Tokens == {TokenTable[i] : i \in 1..Len(TokenTable)}

TokenCode(t) == CHOOSE i \in 1..Len(TokenTable) : TokenTable[i] = t

EncodeName(name) == [i \in 1..Len(name) |-> TokenCode(name[i])]

NameDecodable(codes) == \A i \in 1..Len(codes) : codes[i] \in 1..Len(TokenTable)

DecodeName(codes) == [i \in 1..Len(codes) |-> TokenTable[codes[i]]]

RECURSIVE CrcFrom(_, _, _)
CrcFrom(bytes, i, acc) ==
  IF i > Len(bytes) THEN acc
  ELSE CrcFrom(bytes, i + 1, (acc * 31 + bytes[i] + 1) % 65521)

\* checksum of the content (a position-sensitive stand-in for CRC-32)
crc32(bytes) == CrcFrom(bytes, 1, 7)

EncodeLocalHeader(name, bytes) ==
  <<SigLocalHeader, crc32(bytes), Len(bytes), Len(name)>> \o EncodeName(name) \o bytes

EncodeCentralRecord(rec) ==
  <<SigCentralRecord, rec.crc, rec.size, Len(rec.name), rec.offset,
    IF rec.isDirectory THEN DirectoryAttr ELSE FileAttr>> \o EncodeName(rec.name)

EncodeEOCD(count, cdSize, cdOffset) == <<SigEOCD, count, cdSize, cdOffset, 0>>

\* Decode one Local File Header and its content at a 0-based offset
DecodeLocalEntry(buf, offset) ==
  LET p == offset + 1
      bad == [ok |-> FALSE, name |-> <<>>, crc |-> 0, content |-> <<>>]
  IN  IF offset < 0 \/ p + LocalHeaderFields - 1 > Len(buf) THEN bad
      ELSE IF buf[p] # SigLocalHeader THEN bad
      ELSE LET size == buf[p + 2]
               nlen == buf[p + 3]
               nameAt == p + LocalHeaderFields
           IN  IF nameAt + nlen + size - 1 > Len(buf) THEN bad
               ELSE LET codes == SubSeq(buf, nameAt, nameAt + nlen - 1)
                    IN  IF ~NameDecodable(codes) THEN bad
                        ELSE [ok |-> TRUE, name |-> DecodeName(codes), crc |-> buf[p + 1],
                              content |-> SubSeq(buf, nameAt + nlen, nameAt + nlen + size - 1)]

\* Decode one Central Directory Record at a 1-based position
DecodeCentralRecord(buf, p) ==
  LET bad == [ok |-> FALSE, len |-> 0, name |-> <<>>, isDirectory |-> FALSE,
              uncompressedSize |-> 0, crc32 |-> 0, localHeaderOffset |-> 0]
  IN  IF p + CentralRecordFields - 1 > Len(buf) THEN bad
      ELSE IF buf[p] # SigCentralRecord THEN bad
      ELSE LET nlen == buf[p + 3]
               nameAt == p + CentralRecordFields
           IN  IF nameAt + nlen - 1 > Len(buf) THEN bad
               ELSE LET codes == SubSeq(buf, nameAt, nameAt + nlen - 1)
                    IN  IF ~NameDecodable(codes) THEN bad
                        ELSE [ok |-> TRUE, len |-> CentralRecordFields + nlen,
                              name |-> DecodeName(codes),
                              isDirectory |-> buf[p + 5] = DirectoryAttr,
                              uncompressedSize |-> buf[p + 2], crc32 |-> buf[p + 1],
                              localHeaderOffset |-> buf[p + 4]]

\* ------------------------------------------------------------------------
\* Archive Writer
\* ------------------------------------------------------------------------
\* begin(): a new empty archive builder
begin == [buf |-> <<>>, pending |-> <<>>, sealed |-> FALSE]

ToForwardSlashes(path) == [i \in 1..Len(path) |-> IF path[i] = "\\" THEN "/" ELSE path[i]]

RECURSIVE StripTrailingSlashes(_)
StripTrailingSlashes(path) ==
  IF HasTrailingSlash(path) THEN StripTrailingSlashes(SubSeq(path, 1, Len(path) - 1))
  ELSE path

\* variant: only the leading separator is checked
ValidNameAbsoluteOnly(path) == ~IsAbsolute(path)

\* a member name is relative and has no ".." segment
ValidName(path) ==
  /\ ~IsAbsolute(path)
  /\ \A i \in 1..Len(Segments(path)) : Segments(path)[i] # <<"..">>

PendingNames(w) == {w.pending[i].name : i \in 1..Len(w.pending)}

\* the common part of addFile and addDirectory: the checks, then the Local File
\* Header and content at the write cursor and one pending directory record
AddMember(w, name, bytes, isDir) ==
  IF w.sealed THEN [w |-> w, result |-> "ArchiveSealed"]
  ELSE IF ~ValidName(name) THEN [w |-> w, result |-> "InvalidPath"]
  ELSE IF name \in PendingNames(w) THEN [w |-> w, result |-> "DuplicateEntry"]
  ELSE [w |-> [buf |-> w.buf \o EncodeLocalHeader(name, bytes),
               pending |-> Append(w.pending,
                                  [name |-> name, crc |-> crc32(bytes), size |-> Len(bytes),
                                   offset |-> Len(w.buf), isDirectory |-> isDir]),
               sealed |-> FALSE],
        result |-> "ok"]

addFile(w, path, bytes) == AddMember(w, ToForwardSlashes(path), bytes, FALSE)

addDirectory(w, path) ==
  AddMember(w, StripTrailingSlashes(ToForwardSlashes(path)) \o <<"/">>, <<>>, TRUE)

RECURSIVE EncodeCentralDirectory(_, _)
EncodeCentralDirectory(pending, i) ==
  IF i > Len(pending) THEN <<>>
  ELSE EncodeCentralRecord(pending[i]) \o EncodeCentralDirectory(pending, i + 1)

\* finalize(): the directory records in the order added, then the EOCD
finalize(w) ==
  LET cd == EncodeCentralDirectory(w.pending, 1)
  IN  [buf |-> w.buf \o cd \o EncodeEOCD(Len(w.pending), Len(cd), Len(w.buf)),
       pending |-> w.pending, sealed |-> TRUE]

\* ------------------------------------------------------------------------
\* Archive Reader
\* ------------------------------------------------------------------------
\* position of the last EOCD signature that leaves room for the record, or 0
FindEOCD(buf) ==
  LET cands == {p \in 1..Len(buf) : buf[p] = SigEOCD /\ p + EOCDFields - 1 <= Len(buf)}
  IN  IF cands = {} THEN 0 ELSE CHOOSE p \in cands : \A q \in cands : q <= p

RECURSIVE DecodeDirectory(_, _, _, _)
DecodeDirectory(buf, p, count, acc) ==
  IF count = 0 THEN [ok |-> TRUE, entries |-> acc, next |-> p]
  ELSE LET rec == DecodeCentralRecord(buf, p)
       IN  IF ~rec.ok THEN [ok |-> FALSE, entries |-> <<>>, next |-> p]
           ELSE DecodeDirectory(buf, p + rec.len, count - 1,
                                Append(acc, [name |-> rec.name, isDirectory |-> rec.isDirectory,
                                             uncompressedSize |-> rec.uncompressedSize,
                                             crc32 |-> rec.crc32,
                                             localHeaderOffset |-> rec.localHeaderOffset]))

\* open(bytes): all of the directory or an error
open(buf) ==
  LET at == FindEOCD(buf)
      fail(e) == [ok |-> FALSE, error |-> e, entries |-> <<>>]
  IN  IF at = 0 THEN fail("NotAnArchive")
      ELSE LET count == buf[at + 1]
               cdSize == buf[at + 2]
               cdOffset == buf[at + 3]
               dir == DecodeDirectory(buf, cdOffset + 1, count, <<>>)
           IN  IF ~dir.ok THEN fail("MalformedArchive")
               ELSE IF dir.next - (cdOffset + 1) # cdSize THEN fail("MalformedArchive")
               ELSE [ok |-> TRUE, error |-> "none", entries |-> dir.entries]

\* listEntries(): the member descriptors in directory order
listEntries(archive) == archive.entries

\* content of one listed member: decode at its offset, verify the checksum
readMember(buf, entry) ==
  LET loc == DecodeLocalEntry(buf, entry.localHeaderOffset)
  IN  IF ~loc.ok THEN [ok |-> FALSE, error |-> "MalformedEntry", bytes |-> <<>>]
      ELSE IF crc32(loc.content) # loc.crc
           THEN [ok |-> FALSE, error |-> "IntegrityError", bytes |-> <<>>]
           ELSE [ok |-> TRUE, error |-> "none", bytes |-> loc.content]

\* readEntry(name): exact-name lookup, then readMember
readEntry(buf, archive, name) ==
  LET hits == {i \in 1..Len(archive.entries) : archive.entries[i].name = name}
  IN  IF hits = {} THEN [ok |-> FALSE, error |-> "NotFound", bytes |-> <<>>]
      ELSE readMember(buf, archive.entries[CHOOSE i \in hits : \A j \in hits : i <= j])

\* ------------------------------------------------------------------------
\* Filesystem (Deno.stat, readDir, readFile, mkdir, writeFile)
\* A node is addressed by its resolved path: the sequence of its segments,
\* with a leading <<"/">> for an absolute path and leading ".." segments for
\* a path that leaves the working directory.
\* ------------------------------------------------------------------------
Canon(s) ==
  (IF IsAbsolute(s) THEN << <<"/">> >> ELSE <<>>)
    \o NormalizeSegs(Segments(s), 1, IsAbsolute(s), <<>>)

Parent(p) == IF p = <<>> THEN <<>> ELSE SubSeq(p, 1, Len(p) - 1)

IsPrefix(p, q) == Len(p) <= Len(q) /\ SubSeq(q, 1, Len(p)) = p

\* the working directory, its ancestors and the root always exist
ImplicitDir(p) == \A i \in 1..Len(p) : p[i] \in {<<"..">>, <<"/">>}

Kind(files, p) ==
  IF ImplicitDir(p) THEN "dir"
  ELSE IF \E n \in files : n.path = p
       THEN (CHOOSE n \in files : n.path = p).kind
       ELSE "none"

Data(files, p) == (CHOOSE n \in files : n.path = p).data

\* Deno.readDir: the names directly under a directory
ReadDir(files, p) ==
  {n.path[Len(n.path)] : n \in {m \in files : Len(m.path) = Len(p) + 1 /\ IsPrefix(p, m.path)}}

Prefixes(p) == {SubSeq(p, 1, k) : k \in 1..Len(p)}

\* Deno.mkdir(path, {recursive: true})
MkdirOk(files, p) == \A q \in Prefixes(p) : Kind(files, q) \in {"dir", "none"}

MkdirNew(files, p) == {q \in Prefixes(p) : Kind(files, q) = "none"}

Mkdir(files, p) ==
  files \cup {[path |-> q, kind |-> "dir", data |-> <<>>] : q \in MkdirNew(files, p)}

\* Deno.writeFile(path, data)
WriteFileOk(files, p) ==
  /\ p # <<>>
  /\ Kind(files, Parent(p)) = "dir"
  /\ Kind(files, p) \in {"file", "none"}

WriteFile(files, p, bytes) ==
  {n \in files : n.path # p} \cup {[path |-> p, kind |-> "file", data |-> bytes]}

\* ------------------------------------------------------------------------
\* Inputs: the initial directory tree, archives made by other tools, and the
\* argument vectors
\* ------------------------------------------------------------------------
File(p, bytes) == [path |-> p, kind |-> "file", data |-> bytes]

Dir(p) == [path |-> p, kind |-> "dir", data |-> <<>>]

RECURSIVE RawLocals(_, _, _)
RawLocals(members, i, buf) ==
  IF i > Len(members) THEN buf
  ELSE RawLocals(members, i + 1, buf \o EncodeLocalHeader(members[i].name, members[i].bytes))

RECURSIVE RawPending(_, _, _, _)
RawPending(members, i, offset, acc) ==
  IF i > Len(members) THEN acc
  ELSE RawPending(members, i + 1,
                  offset + LocalHeaderFields + Len(members[i].name) + Len(members[i].bytes),
                  Append(acc, [name |-> members[i].name, crc |-> crc32(members[i].bytes),
                               size |-> Len(members[i].bytes), offset |-> offset,
                               isDirectory |-> members[i].isDirectory]))

\* an archive written by another tool: same layout, names not checked
RawArchive(members) ==
  finalize([buf |-> RawLocals(members, 1, <<>>),
            pending |-> RawPending(members, 1, 0, <<>>), sealed |-> FALSE]).buf

PlainArchive ==
  RawArchive(<< [name |-> <<"a">>, bytes |-> <<1>>, isDirectory |-> FALSE],
                [name |-> <<"sub", "/">>, bytes |-> <<>>, isDirectory |-> TRUE],
                [name |-> <<"sub", "/", "b">>, bytes |-> <<2>>, isDirectory |-> FALSE] >>)

TraversalArchive ==
  RawArchive(<< [name |-> <<"a">>, bytes |-> <<1>>, isDirectory |-> FALSE],
                [name |-> <<"/", "b">>, bytes |-> <<2>>, isDirectory |-> FALSE],
                [name |-> <<"..", "/", "..", "/", "tmp", "/", "a">>, bytes |-> <<3>>,
                 isDirectory |-> FALSE],
                [name |-> <<"..", "/", "empty", "/">>, bytes |-> <<>>, isDirectory |-> TRUE] >>)

\* the archive without its End-of-Central-Directory record
TruncatedArchive == SubSeq(PlainArchive, 1, Len(PlainArchive) - EOCDFields)

\* the last directory record's signature overwritten
MalformedRecordArchive ==
  LET at == CHOOSE p \in 1..Len(PlainArchive) :
              /\ PlainArchive[p] = SigCentralRecord
              /\ \A q \in (p + 1)..Len(PlainArchive) : PlainArchive[q] # SigCentralRecord
  IN  [PlainArchive EXCEPT ![at] = 0]

\* the EOCD's directory size one more than the directory's length
WrongSizeArchive ==
  [PlainArchive EXCEPT ![Len(PlainArchive) - 2] = PlainArchive[Len(PlainArchive) - 2] + 1]

\* the content of the second member changed, its checksum field kept
CorruptContentArchive ==
  LET good == RawArchive(<< [name |-> <<"b">>, bytes |-> <<2>>, isDirectory |-> FALSE],
                            [name |-> <<"a">>, bytes |-> <<1>>, isDirectory |-> FALSE],
                            [name |-> <<"x">>, bytes |-> <<3>>, isDirectory |-> FALSE] >>)
      at == 2 * (LocalHeaderFields + 2)
  IN  [good EXCEPT ![at] = 9]

InitialFiles ==
  { Dir(<< <<"tmp">> >>),
    File(<< <<"tmp">>, <<"a">> >>, <<1>>),
    Dir(<< <<"tmp">>, <<"sub">> >>),
    File(<< <<"tmp">>, <<"sub">>, <<"b">> >>, <<2, 3>>),
    Dir(<< <<"tmp">>, <<"empty">> >>),
    [path |-> << <<"tmp">>, <<"lnk">> >>, kind |-> "symlink", data |-> <<>>],
    File(<< <<"README", ".md">> >>, <<4>>),
    File(<< <<"x", ".zip">> >>, PlainArchive),
    File(<< <<"sub">>, <<"x", ".zip">> >>, TraversalArchive),
    Dir(<< <<"sub">> >>),
    File(<< <<"a", ".zip">> >>, TruncatedArchive),
    File(<< <<"b", ".zip">> >>, MalformedRecordArchive),
    File(<< <<"lnk", ".zip">> >>, WrongSizeArchive),
    File(<< <<"empty", ".zip">> >>, CorruptContentArchive) }

\* parsed option values: an option is absent (<<>>) or carries one string
Absent == <<>>

Opt(s) == <<s>>

\* an argument vector: its length, the number of arguments that are not one of
\* the declared options or their values, and the values of the declared options
Args(n, extra, h, c, d, l) ==
  [length |-> n, positionals |-> extra,
   values |-> [help |-> h, compress |-> c, decompress |-> d, list |-> l]]

ArgVectors ==
  { Args(0, 0, FALSE, Absent, Absent, Absent),
    Args(1, 1, FALSE, Absent, Absent, Absent),
    Args(3, 1, FALSE, Opt(<<"tmp">>), Absent, Absent),
    Args(1, 0, TRUE, Absent, Absent, Absent),
    Args(3, 0, TRUE, Opt(<<"tmp">>), Absent, Absent),
    Args(2, 0, FALSE, Opt(<<"tmp">>), Absent, Absent),
    Args(2, 0, FALSE, Opt(<<"tmp", "/">>), Absent, Absent),
    Args(2, 0, FALSE, Opt(<<"README", ".md">>), Absent, Absent),
    Args(2, 0, FALSE, Opt(<<"b">>), Absent, Absent),
    Args(4, 0, FALSE, Opt(<<"tmp", "/", "sub">>), Opt(<<"x", ".zip">>), Opt(<<"x", ".zip">>)),
    Args(2, 0, FALSE, Absent, Opt(<<"tmp", ".zip">>), Absent),
    Args(2, 0, FALSE, Absent, Opt(<<"x", ".zip">>), Absent),
    Args(2, 0, FALSE, Absent, Opt(<<"sub", "/", "x", ".zip">>), Absent),
    Args(2, 0, FALSE, Absent, Opt(<<"a", ".zip">>), Absent),
    Args(2, 0, FALSE, Absent, Opt(<<"b", ".zip">>), Absent),
    Args(2, 0, FALSE, Absent, Opt(<<"lnk", ".zip">>), Absent),
    Args(2, 0, FALSE, Absent, Opt(<<"empty", ".zip">>), Absent),
    Args(4, 0, FALSE, Absent, Opt(<<"README", ".md", ".zip">>), Opt(<<"x", ".zip">>)),
    Args(2, 0, FALSE, Absent, Absent, Opt(<<"x", ".zip">>)),
    Args(2, 0, FALSE, Absent, Absent, Opt(<<"tmp", ".zip">>)),
    Args(2, 0, FALSE, Absent, Absent, Opt(<<"b", ".zip">>)),
    Args(2, 0, FALSE, Opt(<<>>), Absent, Absent),
    Args(4, 0, FALSE, Opt(<<>>), Absent, Opt(<<"sub", "/", "x", ".zip">>)) }

\* paths and contents a direct client of the Writer passes
ApiPaths ==
  { <<"a">>, <<"sub", "/", "b">>, <<"sub", "\\", "b">>, <<"sub">>, <<"sub", "/", "/">>,
    <<"..", "/", "x">>, <<"sub", "/", "..", "/", "x">>, <<"/", "a">> }

ApiContents == { <<>>, <<1>>, <<2, 3>> }

\* ------------------------------------------------------------------------
\* State
\* ------------------------------------------------------------------------
VARIABLES
  owner,       \* who drives the Writer: the command ("cli") or a direct client ("api")
  files,       \* the filesystem
  pc,          \* position of the command: idle, compress, write, extract
  argv,        \* the argument vector of the current invocation
  stdout,      \* lines printed by console.log in this invocation
  stderr,      \* lines printed by console.error in this invocation
  exitCode,    \* exit status of the last invocation, -1 while it runs
  operation,   \* the operations the current invocation has started
  inputPath,   \* compressPath: its argument
  zipWriter,   \* compressPath: the Writer
  walk,        \* addDirectoryToZip: the pending directory iterations, innermost first
  zipData,     \* decompressZip / listZipContents: the bytes read
  entries,     \* decompressZip: the entries returned by getEntries
  index,       \* decompressZip: position of the loop in entries
  fullOutputDir, \* decompressZip: the destination root
  calls,       \* history: the add calls made on the Writer, with their results
  snapshot,    \* history: files under the compressed root, and the archive made of them
  written,     \* history: files written by the current extraction
  dirsMade,    \* history: directories created by the current extraction
  failedAt,    \* history: index of the entry whose extraction failed, 0 if none
  faults,      \* injected write failures so far
  runs         \* invocations so far

vars == <<owner, files, pc, argv, stdout, stderr, exitCode, operation, inputPath,
          zipWriter, walk, zipData, entries, index, fullOutputDir, calls, snapshot,
          written, dirsMade, failedAt, faults, runs>>

cliVars == <<files, pc, argv, stdout, stderr, exitCode, operation, inputPath, walk,
             zipData, entries, index, fullOutputDir, snapshot, written, dirsMade,
             failedAt, faults, runs>>

NoArgs == Args(0, 0, FALSE, Absent, Absent, Absent)

NoSnapshot == [taken |-> FALSE, root |-> <<>>, files |-> {}, dirs |-> {}, bytes |-> <<>>]

Init ==
  /\ owner \in {"cli", "api"}
  /\ files = InitialFiles
  /\ pc = "idle"
  /\ argv = NoArgs
  /\ stdout = <<>>
  /\ stderr = <<>>
  /\ exitCode = -1
  /\ operation = <<>>
  /\ inputPath = <<>>
  /\ zipWriter = begin
  /\ walk = <<>>
  /\ zipData = <<>>
  /\ entries = <<>>
  /\ index = 0
  /\ fullOutputDir = <<>>
  /\ calls = <<>>
  /\ snapshot = NoSnapshot
  /\ written = {}
  /\ dirsMade = {}
  /\ failedAt = 0
  /\ faults = 0
  /\ runs = 0

\* ------------------------------------------------------------------------
\* main: argument dispatch
\* ------------------------------------------------------------------------
Truthy(option) == option # Absent /\ option[1] # <<>>

\* parseArgs is strict and takes no positionals: any other argument throws
ParseArgsThrows(a) == a.positionals > 0

\* variant: the decompress branch tested before the compress branch
DispatchDecompressFirst(a) ==
  IF a.length = 0 THEN "noargs"
  ELSE IF ParseArgsThrows(a) THEN "parseError"
  ELSE IF a.values.help THEN "help"
  ELSE IF Truthy(a.values.decompress) THEN "decompress"
  ELSE IF Truthy(a.values.compress) THEN "compress"
  ELSE IF Truthy(a.values.list) THEN "list"
  ELSE "usage"

\* the branch main takes for an argument vector
Dispatch(a) ==
  IF a.length = 0 THEN "noargs"
  ELSE IF ParseArgsThrows(a) THEN "parseError"
  ELSE IF a.values.help THEN "help"
  ELSE IF Truthy(a.values.compress) THEN "compress"
  ELSE IF Truthy(a.values.decompress) THEN "decompress"
  ELSE IF Truthy(a.values.list) THEN "list"
  ELSE "usage"

Line(kind, text, type, size) == [kind |-> kind, text |-> text, type |-> type, size |-> size]

UsageLine == Line("usage", <<>>, "", 0)

ErrorLine == Line("error", <<>>, "", 0)

\* a new invocation of the command
Start(a) ==
  /\ owner = "cli"
  /\ pc = "idle"
  /\ runs < MaxRuns
  /\ a \in ArgVectors
  /\ argv' = a
  /\ runs' = runs + 1
  /\ written' = {}
  /\ dirsMade' = {}
  /\ failedAt' = 0

\* the locals of compressPath and of decompressZip before the functions run
NoCompress == inputPath' = <<>> /\ zipWriter' = begin /\ walk' = <<>> /\ calls' = <<>>

NoExtract == zipData' = <<>> /\ entries' = <<>> /\ index' = 0 /\ fullOutputDir' = <<>>

\* showHelp(); Deno.exit(0)
MainHelp ==
  \E a \in ArgVectors :
    /\ Start(a)
    /\ Dispatch(a) \in {"noargs", "help"}
    /\ stdout' = <<UsageLine>>
    /\ stderr' = <<>>
    /\ exitCode' = 0
    /\ operation' = <<"help">>
    /\ pc' = "idle"
    /\ NoCompress
    /\ NoExtract
    /\ UNCHANGED <<owner, files, snapshot, faults>>

\* no operation selected: showHelp(); Deno.exit(1)
MainUsage ==
  \E a \in ArgVectors :
    /\ Start(a)
    /\ Dispatch(a) = "usage"
    /\ stdout' = <<UsageLine>>
    /\ stderr' = <<>>
    /\ exitCode' = 1
    /\ operation' = <<"help">>
    /\ pc' = "idle"
    /\ NoCompress
    /\ NoExtract
    /\ UNCHANGED <<owner, files, snapshot, faults>>

\* parseArgs throws outside the try block: the run ends with status 1
MainParseError ==
  \E a \in ArgVectors :
    /\ Start(a)
    /\ Dispatch(a) = "parseError"
    /\ stdout' = <<>>
    /\ stderr' = <<ErrorLine>>
    /\ exitCode' = 1
    /\ operation' = <<>>
    /\ pc' = "idle"
    /\ NoCompress
    /\ NoExtract
    /\ UNCHANGED <<owner, files, snapshot, faults>>

\* the catch block of main: console.error, Deno.exit(1)
Caught ==
  /\ stderr' = Append(stderr, ErrorLine)
  /\ exitCode' = 1
  /\ pc' = "idle"

\* ------------------------------------------------------------------------
\* compressPath and addDirectoryToZip
\* ------------------------------------------------------------------------
OutputPath(path) == path \o <<".zip">>

\* variant: the entry name alone, the base path dropped
RelativePathNameOnly(basePath, name) == name

\* basePath ? `${basePath}/${entry.name}` : entry.name
RelativePath(basePath, name) ==
  IF basePath # <<>> THEN basePath \o <<"/">> \o name ELSE name

Frame(fs, dirPath, basePath) ==
  [dirPath |-> dirPath, basePath |-> basePath, todo |-> ReadDir(fs, Canon(dirPath))]

\* the files below a root, by path relative to it
TreeFiles(fs, root) ==
  {[rel |-> SubSeq(n.path, Len(root) + 1, Len(n.path)), data |-> n.data] :
     n \in {m \in fs : m.kind = "file" /\ IsPrefix(root, m.path) /\ Len(m.path) > Len(root)}}

\* the directories below a root, by path relative to it
TreeDirs(fs, root) ==
  {SubSeq(n.path, Len(root) + 1, Len(n.path)) :
     n \in {m \in fs : m.kind = "dir" /\ IsPrefix(root, m.path) /\ Len(m.path) > Len(root)}}

Call(op, path, bytes, result) == [op |-> op, path |-> path, bytes |-> bytes, result |-> result]

\* stat, new ZipWriter, and the file branch or the start of the directory walk
MainCompress ==
  \E a \in ArgVectors :
    /\ Start(a)
    /\ Dispatch(a) = "compress"
    /\ LET path == a.values.compress[1]
           p == Canon(path)
           kind == Kind(files, p)
           added == addFile(begin, basename(path), Data(files, p))
       IN  /\ inputPath' = path
           /\ stdout' = <<>>
           /\ operation' = <<"compress">>
           /\ IF kind = "none"
              THEN /\ stderr' = <<ErrorLine>>
                   /\ exitCode' = 1
                   /\ pc' = "idle"
                   /\ zipWriter' = begin
                   /\ walk' = <<>>
                   /\ calls' = <<>>
                   /\ UNCHANGED snapshot
              ELSE IF kind = "file"
              THEN /\ calls' = <<Call("addFile", basename(path), Data(files, p), added.result)>>
                   /\ zipWriter' = added.w
                   /\ walk' = <<>>
                   /\ snapshot' = [taken |-> TRUE, root |-> p, bytes |-> <<>>, dirs |-> {},
                                   files |-> {[rel |-> <<p[Len(p)]>>, data |-> Data(files, p)]}]
                   /\ IF added.result = "ok"
                      THEN stderr' = <<>> /\ exitCode' = -1 /\ pc' = "compress"
                      ELSE stderr' = <<ErrorLine>> /\ exitCode' = 1 /\ pc' = "idle"
              ELSE /\ calls' = <<>>
                   /\ zipWriter' = begin
                   /\ walk' = IF kind = "dir" THEN <<Frame(files, path, <<>>)>> ELSE <<>>
                   /\ snapshot' = [taken |-> TRUE, root |-> p, bytes |-> <<>>,
                                   dirs |-> TreeDirs(files, p), files |-> TreeFiles(files, p)]
                   /\ stderr' = <<>>
                   /\ exitCode' = -1
                   /\ pc' = "compress"
    /\ NoExtract
    /\ UNCHANGED <<owner, files, faults>>

\* one iteration of a for-await loop of addDirectoryToZip, or its return
WalkStep ==
  /\ owner = "cli"
  /\ pc \in {"compress", "write"}
  /\ walk # <<>>
  /\ LET top == walk[1]
     IN  IF top.todo = {}
         THEN /\ walk' = Tail(walk)
              /\ UNCHANGED <<zipWriter, calls, stderr, exitCode, pc>>
         ELSE \E name \in top.todo :
                LET fullPath == join(top.dirPath, name)
                    relativePath == RelativePath(top.basePath, name)
                    kind == Kind(files, Canon(fullPath))
                    rest == [top EXCEPT !.todo = top.todo \ {name}]
                    added == addFile(zipWriter, relativePath, Data(files, Canon(fullPath)))
                IN  IF kind = "file"
                    THEN /\ calls' = Append(calls, Call("addFile", relativePath,
                                                        Data(files, Canon(fullPath)), added.result))
                         /\ zipWriter' = added.w
                         /\ IF added.result = "ok"
                            THEN /\ walk' = <<rest>> \o Tail(walk)
                                 /\ UNCHANGED <<stderr, exitCode, pc>>
                            ELSE /\ walk' = <<>>
                                 /\ Caught
                    ELSE IF kind = "dir"
                    THEN /\ walk' = <<Frame(files, fullPath, relativePath), rest>> \o Tail(walk)
                         /\ UNCHANGED <<zipWriter, calls, stderr, exitCode, pc>>
                    ELSE /\ walk' = <<rest>> \o Tail(walk)
                         /\ UNCHANGED <<zipWriter, calls, stderr, exitCode, pc>>
  /\ UNCHANGED <<owner, files, argv, stdout, operation, inputPath, zipData, entries, index,
                 fullOutputDir, snapshot, written, dirsMade, failedAt, faults, runs>>

\* variant: the walk is started but not awaited
WalkNotAwaited(pending) == TRUE

\* compressPath resumes after its awaited adds: no iteration is pending
WalkAwaited(pending) == pending = <<>>

\* zipWriter.close()
CompressClose ==
  /\ owner = "cli"
  /\ pc = "compress"
  /\ WalkAwaited(walk)
  /\ zipWriter' = finalize(zipWriter)
  /\ pc' = "write"
  /\ UNCHANGED <<owner, files, argv, stdout, stderr, exitCode, operation, inputPath, walk,
                 zipData, entries, index, fullOutputDir, calls, snapshot, written, dirsMade,
                 failedAt, faults, runs>>

CreatedLine(path) == Line("created", path, "", 0)

\* Deno.writeFile(outputPath, zipData); console.log
CompressWrite ==
  /\ owner = "cli"
  /\ pc = "write"
  /\ \E fault \in BOOLEAN :
       LET p == Canon(OutputPath(inputPath))
       IN  /\ fault => faults < MaxFaults
           /\ faults' = IF fault THEN faults + 1 ELSE faults
           /\ IF ~fault /\ WriteFileOk(files, p)
              THEN /\ files' = WriteFile(files, p, zipWriter.buf)
                   /\ snapshot' = [snapshot EXCEPT !.bytes = zipWriter.buf]
                   /\ stdout' = Append(stdout, CreatedLine(OutputPath(inputPath)))
                   /\ exitCode' = 0
                   /\ pc' = "idle"
                   /\ UNCHANGED stderr
              ELSE /\ Caught
                   /\ UNCHANGED <<files, snapshot, stdout>>
  /\ UNCHANGED <<owner, argv, operation, inputPath, zipWriter, walk, zipData, entries, index,
                 fullOutputDir, calls, written, dirsMade, failedAt, runs>>

\* ------------------------------------------------------------------------
\* decompressZip
\* ------------------------------------------------------------------------
\* join(join(zipPath, ".."), basename(zipPath, extname(zipPath)))
FullOutputDir(zipPath) == join(join(zipPath, <<"..">>), basenameExt(zipPath, extname(zipPath)))

\* variant: a failed open is swallowed and the empty listing is used
GetEntriesSwallowed(archive) == "entries"

\* await zipReader.getEntries(): the directory, or the rejection propagates
GetEntriesOutcome(archive) == IF archive.ok THEN "entries" ELSE "throw"

\* variant: a failing entry is skipped and the loop goes on
EntryFailureSkipped == FALSE

\* nothing inside the loop catches: a failing entry ends decompressZip
EntryFailureAborts == TRUE

ExtractedLine(dir) == Line("extracted", dir \o <<"/">>, "", 0)

\* Deno.readFile, new ZipReader, getEntries and the output directory name
MainDecompress ==
  \E a \in ArgVectors :
    /\ Start(a)
    /\ Dispatch(a) = "decompress"
    /\ LET zipPath == a.values.decompress[1]
           p == Canon(zipPath)
           archive == open(Data(files, p))
       IN  /\ stdout' = <<>>
           /\ operation' = <<"decompress">>
           /\ IF Kind(files, p) # "file"
              THEN /\ stderr' = <<ErrorLine>>
                   /\ exitCode' = 1
                   /\ pc' = "idle"
                   /\ NoExtract
              ELSE /\ zipData' = Data(files, p)
                   /\ IF GetEntriesOutcome(archive) = "throw"
                      THEN /\ stderr' = <<ErrorLine>>
                           /\ exitCode' = 1
                           /\ pc' = "idle"
                           /\ entries' = <<>>
                           /\ index' = 0
                           /\ fullOutputDir' = <<>>
                      ELSE /\ entries' = listEntries(archive)
                           /\ index' = 1
                           /\ fullOutputDir' = FullOutputDir(zipPath)
                           /\ stderr' = <<>>
                           /\ exitCode' = -1
                           /\ pc' = "extract"
    /\ NoCompress
    /\ UNCHANGED <<owner, files, snapshot, faults>>

\* the outcome of a failed entry
EntryFailed ==
  /\ failedAt' = index
  /\ IF EntryFailureAborts
     THEN Caught /\ UNCHANGED index
     ELSE index' = index + 1 /\ UNCHANGED <<stderr, exitCode, pc>>

\* one iteration of the loop over entries
ExtractStep ==
  /\ owner = "cli"
  /\ pc = "extract"
  /\ index <= Len(entries)
  /\ \E fault \in {"none", "mkdir", "write"} :
       LET entry == entries[index]
           outputPath == join(fullOutputDir, entry.name)
           target == Canon(outputPath)
           parent == Canon(join(outputPath, <<"..">>))
           data == readMember(zipData, entry)
           made(p) == {[index |-> index, path |-> q] : q \in MkdirNew(files, p)}
       IN  /\ fault # "none" => faults < MaxFaults
           /\ faults' = IF fault # "none" THEN faults + 1 ELSE faults
           /\ IF entry.isDirectory
              THEN /\ fault # "write"
                   /\ IF fault = "none" /\ MkdirOk(files, target)
                      THEN /\ files' = Mkdir(files, target)
                           /\ dirsMade' = dirsMade \cup made(target)
                           /\ index' = index + 1
                           /\ UNCHANGED <<written, failedAt, stderr, exitCode, pc>>
                      ELSE /\ EntryFailed
                           /\ UNCHANGED <<files, dirsMade, written>>
              ELSE IF ~data.ok \/ fault = "mkdir" \/ ~MkdirOk(files, parent)
              THEN /\ ~data.ok => fault = "none"
                   /\ EntryFailed
                   /\ UNCHANGED <<files, dirsMade, written>>
              ELSE IF fault = "write" \/ ~WriteFileOk(Mkdir(files, parent), target)
              THEN /\ files' = Mkdir(files, parent)
                   /\ dirsMade' = dirsMade \cup made(parent)
                   /\ EntryFailed
                   /\ UNCHANGED written
              ELSE /\ files' = WriteFile(Mkdir(files, parent), target, data.bytes)
                   /\ dirsMade' = dirsMade \cup made(parent)
                   /\ written' = written \cup {[index |-> index, path |-> target,
                                                data |-> data.bytes]}
                   /\ index' = index + 1
                   /\ UNCHANGED <<failedAt, stderr, exitCode, pc>>
  /\ UNCHANGED <<owner, argv, stdout, operation, inputPath, zipWriter, walk, zipData, entries,
                 fullOutputDir, calls, snapshot, runs>>

\* after the loop: zipReader.close(); console.log
ExtractDone ==
  /\ owner = "cli"
  /\ pc = "extract"
  /\ index > Len(entries)
  /\ stdout' = Append(stdout, ExtractedLine(fullOutputDir))
  /\ exitCode' = 0
  /\ pc' = "idle"
  /\ UNCHANGED <<owner, files, argv, stderr, operation, inputPath, zipWriter, walk, zipData,
                 entries, index, fullOutputDir, calls, snapshot, written, dirsMade, failedAt,
                 faults, runs>>

\* ------------------------------------------------------------------------
\* listZipContents
\* ------------------------------------------------------------------------
ContentsLine(zipPath) == Line("contents", zipPath, "", 0)

EntryLine(entry) ==
  Line("entry", entry.name, IF entry.isDirectory THEN "DIR" ELSE "FILE", entry.uncompressedSize)

\* variant: the lines in reverse order
ListLinesReversed(es) == [i \in 1..Len(es) |-> EntryLine(es[Len(es) + 1 - i])]

\* one line per entry, in the order of the entries
ListLines(es) == [i \in 1..Len(es) |-> EntryLine(es[i])]

MainList ==
  \E a \in ArgVectors :
    /\ Start(a)
    /\ Dispatch(a) = "list"
    /\ LET zipPath == a.values.list[1]
           p == Canon(zipPath)
           archive == open(Data(files, p))
       IN  /\ operation' = <<"list">>
           /\ IF Kind(files, p) # "file"
              THEN /\ stdout' = <<>>
                   /\ stderr' = <<ErrorLine>>
                   /\ exitCode' = 1
                   /\ zipData' = <<>>
              ELSE /\ zipData' = Data(files, p)
                   /\ IF GetEntriesOutcome(archive) = "throw"
                      THEN /\ stdout' = <<>>
                           /\ stderr' = <<ErrorLine>>
                           /\ exitCode' = 1
                      ELSE /\ stdout' = <<ContentsLine(zipPath)>> \o ListLines(listEntries(archive))
                           /\ stderr' = <<>>
                           /\ exitCode' = 0
    /\ pc' = "idle"
    /\ entries' = <<>>
    /\ index' = 0
    /\ fullOutputDir' = <<>>
    /\ NoCompress
    /\ UNCHANGED <<owner, files, snapshot, faults>>

\* ------------------------------------------------------------------------
\* A direct client of the Archive Writer
\* ------------------------------------------------------------------------
ApiAddFile ==
  /\ owner = "api"
  /\ Len(calls) < MaxApiAdds
  /\ \E path \in ApiPaths, bytes \in ApiContents :
       LET added == addFile(zipWriter, path, bytes)
       IN  /\ zipWriter' = added.w
           /\ calls' = Append(calls, Call("addFile", path, bytes, added.result))
  /\ UNCHANGED <<owner, cliVars>>

ApiAddDirectory ==
  /\ owner = "api"
  /\ Len(calls) < MaxApiAdds
  /\ \E path \in ApiPaths :
       LET added == addDirectory(zipWriter, path)
       IN  /\ zipWriter' = added.w
           /\ calls' = Append(calls, Call("addDirectory", path, <<>>, added.result))
  /\ UNCHANGED <<owner, cliVars>>

ApiFinalize ==
  /\ owner = "api"
  /\ ~zipWriter.sealed
  /\ zipWriter' = finalize(zipWriter)
  /\ UNCHANGED <<owner, calls, cliVars>>

\* ------------------------------------------------------------------------
\* Specification
\* ------------------------------------------------------------------------
Next ==
  \/ MainHelp
  \/ MainUsage
  \/ MainParseError
  \/ MainCompress
  \/ WalkStep
  \/ CompressClose
  \/ CompressWrite
  \/ MainDecompress
  \/ ExtractStep
  \/ ExtractDone
  \/ MainList
  \/ ApiAddFile
  \/ ApiAddDirectory
  \/ ApiFinalize

Spec == Init /\ [][Next]_vars

\* ------------------------------------------------------------------------
\* Properties
\* ------------------------------------------------------------------------
Finished(op) == pc = "idle" /\ operation = <<op>>

RECURSIVE AddedNames(_, _)
\* the member names of the successful add calls, in call order
AddedNames(cs, i) ==
  IF i > Len(cs) THEN <<>>
  ELSE (IF cs[i].result # "ok" THEN <<>>
        ELSE IF cs[i].op = "addFile" THEN <<ToForwardSlashes(cs[i].path)>>
        ELSE <<StripTrailingSlashes(ToForwardSlashes(cs[i].path)) \o <<"/">> >>)
       \o AddedNames(cs, i + 1)

EntryNames(es) == [i \in 1..Len(es) |-> es[i].name]

C2_ExtractionStaysUnderRoot ==
  \A w \in written \cup dirsMade : IsPrefix(Canon(fullOutputDir), w.path)

\* C3: after a directory is compressed, the archive has exactly one member for
\* every file and every directory found under the root, directories as
\* directory members named with a trailing separator.
C3_WalkAddsEveryEntry ==
  (Finished("compress") /\ exitCode = 0) =>
    LET es == open(zipWriter.buf).entries
        members(name, isDir) ==
          {i \in 1..Len(es) : es[i].name = name /\ es[i].isDirectory = isDir}
    IN  /\ \A f \in snapshot.files : Cardinality(members(JoinSegs(f.rel, 1), FALSE)) = 1
        /\ \A d \in snapshot.dirs : Cardinality(members(JoinSegs(d, 1) \o <<"/">>, TRUE)) = 1

\* C4: a successful compress writes the archive beside the input, named by the
\* input's name with ".zip" appended.
C4_OutputBesideInput ==
  (Finished("compress") /\ exitCode = 0) =>
    LET expected == Append(Parent(Canon(inputPath)), basename(inputPath) \o <<".zip">>)
    IN  /\ Kind(files, expected) = "file"
        /\ Data(files, expected) = zipWriter.buf
        /\ Canon(stdout[Len(stdout)].text) = expected

\* a path that starts at the root or has a ".." segment, either separator
C5_Traversal(path) ==
  LET sep == {"/", "\\"}
  IN  \/ Len(path) > 0 /\ path[1] \in sep
      \/ \E i \in 1..Len(path) :
           /\ path[i] = ".."
           /\ i = 1 \/ path[i - 1] \in sep
           /\ i = Len(path) \/ path[i + 1] \in sep

C5_Rejected ==
  (Len(calls') = Len(calls) + 1 /\ ~zipWriter.sealed /\ C5_Traversal(calls'[Len(calls')].path)) =>
    /\ calls'[Len(calls')].result = "InvalidPath"
    /\ zipWriter' = zipWriter

\* C5: an add with an absolute path or a ".." segment fails with InvalidPath
\* and leaves the builder as it was, and no finalized archive lists a member
\* name that is absolute or has a ".." segment.
C5_PathTraversalRejected ==
  /\ [](zipWriter.sealed =>
          \A i \in 1..Len(open(zipWriter.buf).entries) :
            ~C5_Traversal(open(zipWriter.buf).entries[i].name))
  /\ [][C5_Rejected]_vars

C5_Witness ==
  /\ zipWriter.sealed
  /\ Len(zipWriter.pending) >= 1
  /\ \E i \in 1..Len(calls) : calls[i].result = "InvalidPath"

C6_SealedStep ==
  (zipWriter.sealed /\ runs' = runs) =>
    /\ zipWriter' = zipWriter
    /\ calls' # calls =>
         /\ owner = "api"
         /\ Len(calls') = Len(calls) + 1
         /\ calls'[Len(calls')].result = "ArchiveSealed"

\* C6: once the Writer is finalized its buffer never changes and every later
\* add fails with ArchiveSealed; the command issues no add after the close.
C6_WriterLifecycle == [][C6_SealedStep]_vars

C6_Witness ==
  /\ zipWriter.sealed
  /\ Len(zipWriter.pending) >= 1
  /\ Len(calls) >= 2
  /\ calls[Len(calls)].result = "ArchiveSealed"

StructurallyBroken == {TruncatedArchive, MalformedRecordArchive, WrongSizeArchive}

\* C7: when the archive read by decompress or list has no EOCD, a directory
\* record that does not decode, or a directory length that disagrees with the
\* EOCD, the operation fails: nothing is created or written, no entry is
\* printed, and the run ends with status 1.
C7_OpenAllOrNothing ==
  (zipData \in StructurallyBroken) =>
    /\ pc = "idle"
    /\ exitCode = 1
    /\ written = {} /\ dirsMade = {}
    /\ entries = <<>>
    /\ \A i \in 1..Len(stdout) : stdout[i].kind \notin {"entry", "contents", "extracted"}

C7_Witness ==
  /\ Finished("decompress")
  /\ zipData = MalformedRecordArchive
  /\ exitCode = 1

\* C8: when the extraction of entry i fails, the loop stops at i: nothing is
\* created or written for a later entry, no success line is printed, and the
\* run ends with an error message and status 1.
C8_EntryFailureAborts ==
  failedAt # 0 =>
    /\ index = failedAt
    /\ \A w \in written \cup dirsMade : w.index <= failedAt
    /\ pc = "idle"
    /\ exitCode = 1
    /\ stderr # <<>>
    /\ \A i \in 1..Len(stdout) : stdout[i].kind # "extracted"

C8_Witness ==
  /\ failedAt = 2
  /\ Len(entries) = 3
  /\ written # {}

C9_ExtractInOrder ==
  (pc = "extract" /\ index' # index /\ runs' = runs) =>
    /\ index' = index + 1
    /\ \A w \in written' \cup dirsMade' : w.index <= index

\* C9: the finalized archive lists the members in the order they were added;
\* list prints one line per member in directory order, and extraction visits
\* the entries in that order.
C9_OrderPreserved ==
  /\ [](zipWriter.sealed =>
          EntryNames(listEntries(open(zipWriter.buf))) = AddedNames(calls, 1))
  /\ []((Finished("list") /\ exitCode = 0) =>
          /\ Len(stdout) = Len(open(zipData).entries) + 1
          /\ \A i \in 1..Len(open(zipData).entries) :
               /\ stdout[i + 1].kind = "entry"
               /\ stdout[i + 1].text = open(zipData).entries[i].name)
  /\ [][C9_ExtractInOrder]_vars

C9_Witness ==
  /\ Finished("list")
  /\ exitCode = 0
  /\ zipData = snapshot.bytes
  /\ Len(stdout) >= 3
  /\ stdout[2].text # stdout[3].text

C10_NonEmpty(option) == Len(option) = 1 /\ Len(option[1]) > 0

\* the operation the precedence help > compress > decompress > list selects
C10_Selected(a) ==
  IF a.length = 0 \/ a.values.help THEN "help"
  ELSE IF C10_NonEmpty(a.values.compress) THEN "compress"
  ELSE IF C10_NonEmpty(a.values.decompress) THEN "decompress"
  ELSE IF C10_NonEmpty(a.values.list) THEN "list"
  ELSE "help"

C10_Outcome ==
  /\ operation = <<C10_Selected(argv)>>
  /\ C10_Selected(argv) = "help" =>
       /\ pc = "idle"
       /\ stdout = <<UsageLine>>
       /\ exitCode = IF argv.length = 0 \/ argv.values.help THEN 0 ELSE 1
  /\ pc = "idle" =>
       /\ exitCode \in {0, 1}
       /\ stderr # <<>> <=> (exitCode = 1 /\ C10_Selected(argv) # "help")

====
